---- MODULE Spec2Model ----
(***************************************************************************)
(* Time-accounting engine of PersonalPrinz (gui/dialogs/attendance.py).    *)
(*                                                                         *)
(* Text cells of Anwesenheit.csv are modelled as sequences of one-         *)
(* character strings, so that parsing (_parse_hhmm, the balance parser of  *)
(* _read_prev_cum_zk) and formatting (_fmt_signed) are computed the way    *)
(* the Python code computes them.  Calendar dates are day numbers of one   *)
(* period whose day 0 is a Monday; BadDatum stands for a Datum cell that   *)
(* datetime.strptime rejects.                                              *)
(***************************************************************************)
EXTENDS Integers, Sequences, FiniteSets, TLC

VARIABLES csv, rows, last, nEdits, editor

vars == <<csv, rows, last, nEdits, editor>>

-----------------------------------------------------------------------------
(* Optional[int]                                                           *)

None == [some |-> FALSE, v |-> 0]

Some(x) == [some |-> TRUE, v |-> x]

-----------------------------------------------------------------------------
(* Python str / int primitives on character sequences                      *)

T(str) ==
  CASE str = "" -> <<>>
    [] str = "-1" -> <<"-", "1">>
    [] str = "abc" -> <<"a", "b", "c">>
    [] str = "8" -> <<"8">>
    [] str = "25:00" -> <<"2", "5", ":", "0", "0">>
    [] str = "08:75" -> <<"0", "8", ":", "7", "5">>
    [] str = "08:00" -> <<"0", "8", ":", "0", "0">>
    [] str = " 08:00" -> <<" ", "0", "8", ":", "0", "0">>
    [] str = "8:0" -> <<"8", ":", "0">>
    [] str = "12:00" -> <<"1", "2", ":", "0", "0">>
    [] str = "16:30" -> <<"1", "6", ":", "3", "0">>
    [] str = "18:00" -> <<"1", "8", ":", "0", "0">>
    [] str = "22:00" -> <<"2", "2", ":", "0", "0">>
    [] str = "02:00" -> <<"0", "2", ":", "0", "0">>
    [] str = "+0:00" -> <<"+", "0", ":", "0", "0">>
    [] str = "+1:00" -> <<"+", "1", ":", "0", "0">>
    [] str = "+1:15" -> <<"+", "1", ":", "1", "5">>
    [] str = "+2:00" -> <<"+", "2", ":", "0", "0">>
    [] str = "-0:30" -> <<"-", "0", ":", "3", "0">>
    [] str = "-8:00" -> <<"-", "8", ":", "0", "0">>
    [] str = "1:30" -> <<"1", ":", "3", "0">>
    [] str = "1:5" -> <<"1", ":", "5">>
    [] str = "-+1:15" -> <<"-", "+", "1", ":", "1", "5">>
    [] str = "1:-5" -> <<"1", ":", "-", "5">>
    [] str = "130" -> <<"1", "3", "0">>
    [] str = "1:30:00" -> <<"1", ":", "3", "0", ":", "0", "0">>
    [] str = " +1:00 " -> <<" ", "+", "1", ":", "0", "0", " ">>
    [] str = "01" -> <<"0", "1">>
    [] str = "02" -> <<"0", "2">>
    [] str = " 01" -> <<" ", "0", "1">>
    [] str = "Anwesend" -> <<"A", "n", "w", "e", "s", "e", "n", "d">>
    [] str = "Urlaub" -> <<"U", "r", "l", "a", "u", "b">>
    [] str = "URLAUB" -> <<"U", "R", "L", "A", "U", "B">>
    [] str = " urlaub " -> <<" ", "u", "r", "l", "a", "u", "b", " ">>
    [] str = "FvD" -> <<"F", "v", "D">>
    [] str = "fvd" -> <<"f", "v", "d">>
    [] str = "Zeitausgleich" -> <<"Z", "e", "i", "t", "a", "u", "s", "g", "l", "e", "i", "c", "h">>
    [] str = "Mehrarbeit" -> <<"M", "e", "h", "r", "a", "r", "b", "e", "i", "t">>
    [] str = "Abbau Mehrarbeit" -> <<"A", "b", "b", "a", "u", " ", "M", "e", "h", "r", "a", "r", "b", "e", "i", "t">>
    [] str = "abbau_mehrarbeit" -> <<"a", "b", "b", "a", "u", "_", "m", "e", "h", "r", "a", "r", "b", "e", "i", "t">>
    [] str = "Krank" -> <<"K", "r", "a", "n", "k">>
    [] str = "Wochenende" -> <<"W", "o", "c", "h", "e", "n", "e", "n", "d", "e">>
    [] str = "Feiertag" -> <<"F", "e", "i", "e", "r", "t", "a", "g">>
    [] str = "Home Office" -> <<"H", "o", "m", "e", " ", "O", "f", "f", "i", "c", "e">>
    [] str = "Dienstreise" -> <<"D", "i", "e", "n", "s", "t", "r", "e", "i", "s", "e">>
    [] str = "Kindkrank" -> <<"K", "i", "n", "d", "k", "r", "a", "n", "k">>
    [] str = "Nicht mehr in Kompanie" -> <<"N", "i", "c", "h", "t", " ", "m", "e", "h", "r", " ", "i", "n", " ", "K", "o", "m", "p", "a", "n", "i", "e">>
    [] str = "urlaub" -> <<"u", "r", "l", "a", "u", "b">>
    [] str = "zeitausgleich" -> <<"z", "e", "i", "t", "a", "u", "s", "g", "l", "e", "i", "c", "h">>
    [] str = "mehrarbeit" -> <<"m", "e", "h", "r", "a", "r", "b", "e", "i", "t">>
    [] str = "abbau mehrarbeit" -> <<"a", "b", "b", "a", "u", " ", "m", "e", "h", "r", "a", "r", "b", "e", "i", "t">>
    [] str = "anwesend" -> <<"a", "n", "w", "e", "s", "e", "n", "d">>
    [] str = "FVD" -> <<"F", "V", "D">>
    [] str = " fvd " -> <<" ", "f", "v", "d", " ">>
    [] str = "16:00" -> <<"1", "6", ":", "0", "0">>
    [] str = "03" -> <<"0", "3">>
    [] str = "04" -> <<"0", "4">>
    [] str = "krank" -> <<"k", "r", "a", "n", "k">>
    [] str = "kindkrank" -> <<"k", "i", "n", "d", "k", "r", "a", "n", "k">>
    [] str = "home office" -> <<"h", "o", "m", "e", " ", "o", "f", "f", "i", "c", "e">>
    [] str = "dienstreise" -> <<"d", "i", "e", "n", "s", "t", "r", "e", "i", "s", "e">>
    [] str = "wochenende" -> <<"w", "o", "c", "h", "e", "n", "e", "n", "d", "e">>
    [] str = "feiertag" -> <<"f", "e", "i", "e", "r", "t", "a", "g">>
    [] str = "nicht mehr in kompanie" -> <<"n", "i", "c", "h", "t", " ", "m", "e", "h", "r", " ", "i", "n", " ", "k", "o", "m", "p", "a", "n", "i", "e">>
    [] str = "06:00" -> <<"0", "6", ":", "0", "0">>
    [] str = "15:00" -> <<"1", "5", ":", "0", "0">>

DigitChars == <<"0", "1", "2", "3", "4", "5", "6", "7", "8", "9">>

IsDigit(c) == \E i \in 1..10 : DigitChars[i] = c

DigitVal(c) == (CHOOSE i \in 1..10 : DigitChars[i] = c) - 1

RECURSIVE LStrip(_)
LStrip(s) == IF s /= <<>> /\ Head(s) = " " THEN LStrip(Tail(s)) ELSE s

RECURSIVE RStrip(_)
RStrip(s) ==
  IF s /= <<>> /\ s[Len(s)] = " " THEN RStrip(SubSeq(s, 1, Len(s) - 1)) ELSE s

Strip(s) == RStrip(LStrip(s))

RECURSIVE DigitsVal(_)
DigitsVal(s) ==
  IF s = <<>> THEN 0
  ELSE DigitsVal(SubSeq(s, 1, Len(s) - 1)) * 10 + DigitVal(s[Len(s)])

PyIntOf(neg, u) ==
  IF u /= <<>> /\ \A i \in 1..Len(u) : IsDigit(u[i])
  THEN Some(IF neg THEN 0 - DigitsVal(u) ELSE DigitsVal(u))
  ELSE None

PyIntStripped(t) ==
  PyIntOf(t /= <<>> /\ Head(t) = "-",
          IF t /= <<>> /\ Head(t) \in {"+", "-"} THEN Tail(t) ELSE t)

\* int(s): surrounding blanks are ignored, one optional sign, then digits;
\* anything else raises ValueError (None here).
PyInt(s) == PyIntStripped(Strip(s))

Colons(s) == {i \in 1..Len(s) : s[i] = ":"}

\* h, m = s.split(":") -- succeeds only with exactly two parts.
SplitColon(s) ==
  IF Cardinality(Colons(s)) = 1
  THEN LET i == CHOOSE j \in Colons(s) : TRUE
       IN [ok |-> TRUE, h |-> SubSeq(s, 1, i - 1), m |-> SubSeq(s, i + 1, Len(s))]
  ELSE [ok |-> FALSE, h |-> <<>>, m |-> <<>>]

RECURSIVE DecDigits(_)
DecDigits(n) ==
  IF n < 10 THEN <<DigitChars[n + 1]>>
  ELSE DecDigits(n \div 10) \o <<DigitChars[(n % 10) + 1]>>

Abs(n) == IF n < 0 THEN 0 - n ELSE n

Max(a, b) == IF a >= b THEN a ELSE b

-----------------------------------------------------------------------------
(* Zeit/Format utilities                                                   *)

\* Line 151: int(h) * 60 + int(m); a failed int() is the except branch.
HourMinute(h, m) == IF h.some /\ m.some THEN Some(h.v * 60 + m.v) ELSE None

\* Lines 150-153 on the parts of s.split(":").
ParseParts(p) == IF ~p.ok THEN None ELSE HourMinute(PyInt(p.h), PyInt(p.m))

_parse_hhmm(s) == IF s = <<>> THEN None ELSE ParseParts(SplitColon(s))

FmtAbs(sign, a) ==
  <<sign>> \o DecDigits(a \div 60) \o <<":">>
    \o <<DigitChars[((a % 60) \div 10) + 1], DigitChars[((a % 60) % 10) + 1]>>

fmt_signed_zero_minus(mins) == FmtAbs(IF mins > 0 THEN "+" ELSE "-", Abs(mins))

\* Lines 156-159.
_fmt_signed(mins) == FmtAbs(IF mins >= 0 THEN "+" ELSE "-", Abs(mins))

NetAfterFirstNoSecondBreak(gross_after_first) ==
  IF gross_after_first <= 540 THEN gross_after_first
  ELSE IF gross_after_first <= 555 THEN 540
  ELSE gross_after_first

\* Lines 183-187.
NetAfterFirst(gross_after_first) ==
  IF gross_after_first <= 540 THEN gross_after_first
  ELSE IF gross_after_first <= 555 THEN 540
  ELSE gross_after_first - 15

\* Lines 178-182.
NetOfGross(gross) ==
  IF gross <= 360 THEN gross
  ELSE IF gross <= 390 THEN 360
  ELSE NetAfterFirst(gross - 30)

\* Lines 175-177: gross minutes of the parsed clock-in a and clock-out b.
GrossOfParsed(a, b) == (IF b < a THEN b + 24 * 60 ELSE b) - a

NetOfParsedNoOvernight(a, b) ==
  IF ~a.some \/ ~b.some THEN None ELSE Some(NetOfGross(b.v - a.v))

\* Lines 173-177.
NetOfParsed(a, b) ==
  IF ~a.some \/ ~b.some THEN None
  ELSE Some(NetOfGross(GrossOfParsed(a.v, b.v)))

_net_work_minutes(anf, end) == NetOfParsed(_parse_hhmm(anf), _parse_hhmm(end))

-----------------------------------------------------------------------------
(* SpecNet: _net_work_minutes applied to clock texts.                       *)

\* Clock-in minutes of day are the multiples of NetStartStep; clock-out
\* ranges over every minute of the day.
NetStartStep == 59

MinutesPerDay == 1440

\* "HH:MM" as a time widget or quick button writes it.
HHMM(t) ==
  <<DigitChars[((t \div 60) \div 10) + 1], DigitChars[((t \div 60) % 10) + 1], ":",
    DigitChars[((t % 60) \div 10) + 1], DigitChars[((t % 60) % 10) + 1]>>

Absent == 0 - 1

ClockText(t) == IF t = Absent THEN <<>> ELSE HHMM(t)

NetStarts == {t \in 0..(MinutesPerDay - 1) : t % NetStartStep = 0} \cup {Absent}

NetEnds == 0..(MinutesPerDay - 1) \cup {Absent}

NoCall == [op |-> "none"]

\* AttendanceEditor (main.py) as constructed: model not dirty, empty PN filter.
NoEditor == [dirty |-> FALSE, filter |-> <<>>]

InitNet ==
  /\ csv = <<>>
  /\ rows = <<>>
  /\ nEdits = 0
  /\ last = NoCall
  /\ editor = NoEditor

NetCall ==
  /\ last = NoCall
  /\ \E a \in NetStarts, b \in NetEnds :
    /\ last' = [op |-> "net", a |-> a, b |-> b,
                result |-> _net_work_minutes(ClockText(a), ClockText(b))]
    /\ UNCHANGED <<csv, rows, nEdits, editor>>

NextNet == NetCall

SpecNet == InitNet /\ [][NextNet]_vars

\* The tiered step function of section 4.1, on minutes.
Gross(a, b) == IF b < a THEN (b + 1440) - a ELSE b - a

Tier(gross) ==
  IF gross <= 360 THEN gross
  ELSE IF gross <= 390 THEN 360
  ELSE IF gross - 30 <= 540 THEN gross - 30
  ELSE IF gross - 30 <= 555 THEN 540
  ELSE gross - 30 - 15

\* C1: for valid times of day the result is the tiered step function of the
\* gross duration after the overnight adjustment, and the result is none
\* exactly when clock-in or clock-out is absent.
C1_NetTiers ==
  last.op = "net" =>
    IF last.a = Absent \/ last.b = Absent
    THEN last.result = None
    ELSE last.result = Some(Tier(Gross(last.a, last.b)))

\* A clock pair in the second plateau's neighbourhood was evaluated overnight.
C1_Witness ==
  /\ last.op = "net"
  /\ last.a /= Absent /\ last.b /= Absent
  /\ last.b < last.a
  /\ Gross(last.a, last.b) = 586
  /\ last.result = Some(541)

GrossIs(g) == last.op = "net" /\ last.a = 0 /\ last.b = g

\* C2 as stated: gross 360, 390, 391, 570, 585, 600 give net 360, 360, 361,
\* 540, 540, 570.
C2_AsStated ==
  /\ GrossIs(360) => last.result = Some(360)
  /\ GrossIs(390) => last.result = Some(360)
  /\ GrossIs(391) => last.result = Some(361)
  /\ GrossIs(570) => last.result = Some(540)
  /\ GrossIs(585) => last.result = Some(540)
  /\ GrossIs(600) => last.result = Some(570)

\* C2 amended: gross 360, 390, 391, 570, 585, 600 give net 360, 360, 361,
\* 540, 540, 555 (both breaks, 45 minutes, are deducted at 10h gross).
C2_NetExamples ==
  /\ GrossIs(360) => last.result = Some(360)
  /\ GrossIs(390) => last.result = Some(360)
  /\ GrossIs(391) => last.result = Some(361)
  /\ GrossIs(570) => last.result = Some(540)
  /\ GrossIs(585) => last.result = Some(540)
  /\ GrossIs(600) => last.result = Some(555)

C2_Witness == GrossIs(600) /\ last.result = Some(555)

-----------------------------------------------------------------------------
(* Attendance records (one dict per CSV line, ANWESENHEIT_HEADERS)         *)

Rec(pn, d, st, a, e, zk, u, m, f) ==
  [Personalnummer |-> pn, Datum |-> d, Status |-> st, Anfang |-> a, Ende |-> e,
   Zeitkonto |-> zk, Urlaub |-> u, Mehrarbeit |-> m, FvD |-> f]

\* A Datum cell that strptime(..., "%Y-%m-%d") rejects.
BadDatum == 0 - 1

IsDate(d) == d /= BadDatum

\* date.weekday(): 0 = Monday .. 6 = Sunday; day 0 is a Monday.
Weekday(d) == d % 7

UpperChars == <<"A", "B", "C", "D", "E", "F", "G", "H", "I", "J", "K", "L", "M",
                "N", "O", "P", "Q", "R", "S", "T", "U", "V", "W", "X", "Y", "Z">>

LowerChars == <<"a", "b", "c", "d", "e", "f", "g", "h", "i", "j", "k", "l", "m",
                "n", "o", "p", "q", "r", "s", "t", "u", "v", "w", "x", "y", "z">>

LowerChar(c) ==
  IF \E i \in 1..26 : UpperChars[i] = c
  THEN LowerChars[CHOOSE i \in 1..26 : UpperChars[i] = c]
  ELSE c

\* str.lower()
Lower(s) == [i \in 1..Len(s) |-> LowerChar(s[i])]

-----------------------------------------------------------------------------
(* Reference data held by AttendanceModel after reload()                   *)

P1 == T("01")

P2 == T("02")

\* Mitarbeiter.csv: P1 is assigned a model, P2 is unassigned.
pn_to_az == (P1 :> "Standard") @@ (P2 :> "")

\* arbeitszeitmodelle.csv: model -> [Mo..Fr] minutes.
model_day_minutes == ("Standard" :> <<480, 480, 480, 480, 480>>)

required_minutes_flat_fallback(mdm, p2a, pn, d) ==
  LET wd == Weekday(d)
      model == IF pn \in DOMAIN p2a THEN p2a[pn] ELSE ""
  IN IF wd >= 5 THEN 0
     ELSE IF model /= "" /\ model \in DOMAIN mdm THEN mdm[model][wd + 1]
     ELSE 9 * 60

_required_minutes_for(mdm, p2a, pn, d) ==
  LET wd == Weekday(d)
      model == IF pn \in DOMAIN p2a THEN p2a[pn] ELSE ""
  IN IF wd >= 5 THEN 0
     ELSE IF model /= "" /\ model \in DOMAIN mdm THEN mdm[model][wd + 1]
     ELSE IF wd <= 3 THEN 9 * 60 ELSE 5 * 60

-----------------------------------------------------------------------------
(* Ledger reader                                                           *)

\* The loop of lines 203-213: prev is 0 (no record yet) or the index of the
\* record kept so far.
RECURSIVE PrevScan(_, _, _, _, _)
PrevScan(rws, pn, d, i, prev) ==
  IF i > Len(rws) THEN prev
  ELSE LET r == rws[i]
       IN IF Strip(r.Personalnummer) /= pn THEN PrevScan(rws, pn, d, i + 1, prev)
          ELSE IF ~IsDate(r.Datum) THEN PrevScan(rws, pn, d, i + 1, prev)
          ELSE IF r.Datum < d /\ (prev = 0 \/ r.Datum > rws[prev].Datum)
               THEN PrevScan(rws, pn, d, i + 1, i)
               ELSE PrevScan(rws, pn, d, i + 1, prev)

RECURSIVE PrevScanInclusive(_, _, _, _, _)
PrevScanInclusive(rws, pn, d, i, prev) ==
  IF i > Len(rws) THEN prev
  ELSE LET r == rws[i]
       IN IF Strip(r.Personalnummer) /= pn THEN PrevScanInclusive(rws, pn, d, i + 1, prev)
          ELSE IF ~IsDate(r.Datum) THEN PrevScanInclusive(rws, pn, d, i + 1, prev)
          ELSE IF r.Datum <= d /\ (prev = 0 \/ r.Datum > rws[prev].Datum)
               THEN PrevScanInclusive(rws, pn, d, i + 1, i)
               ELSE PrevScanInclusive(rws, pn, d, i + 1, prev)

ParseZkInts(neg, h, m) ==
  IF ~h.some \/ ~m.some THEN 0
  ELSE (IF neg THEN 0 - 1 ELSE 1) * (h.v * 60 + m.v)

ParseZkParts(neg, p) ==
  IF ~p.ok THEN 0 ELSE ParseZkInts(neg, PyInt(p.h), PyInt(p.m))

ParseZkSigned(neg, z) ==
  ParseZkParts(neg, SplitColon(IF z /= <<>> /\ Head(z) = "+" THEN Tail(z) ELSE z))

ParseZkStripped(zk) ==
  IF zk = <<>> THEN 0
  ELSE ParseZkSigned(Head(zk) = "-", IF Head(zk) = "-" THEN Tail(zk) ELSE zk)

\* Lines 216-229: the "+H:MM" parser; a blank cell and every exception
\* yield 0.
ParseZk(text) == ParseZkStripped(Strip(text))

RECURSIVE PrevOfOlder(_, _)
PrevOfOlder(rws, prev) ==
  IF prev = 0 THEN 0
  ELSE IF Strip(rws[prev].Zeitkonto) = <<>>
  THEN PrevOfOlder(rws, PrevScan(rws, Strip(rws[prev].Personalnummer), rws[prev].Datum, 1, 0))
  ELSE ParseZk(rws[prev].Zeitkonto)

\* Lines 214-229 for the record index kept by the loop (0: none).
PrevOf(rws, prev) == IF prev = 0 THEN 0 ELSE ParseZk(rws[prev].Zeitkonto)

read_prev_inclusive(rws, pn, d) == PrevOf(rws, PrevScanInclusive(rws, pn, d, 1, 0))

_read_prev_cum_zk(rws, pn, d) == PrevOf(rws, PrevScan(rws, pn, d, 1, 0))

-----------------------------------------------------------------------------
(* SpecPrev: _read_prev_cum_zk applied to record lists.                    *)

MaxPrevRows == 3

MaxPrevDay == 3

\* Balances the engine has written, in minutes.
PrevBalances == {75, 0 - 615}

PrevZkTexts == {_fmt_signed(m) : m \in PrevBalances} \cup {<<>>}

PrevRecs ==
  {Rec(pn, d, T("Anwesend"), <<>>, <<>>, zk, <<>>, <<>>, <<>>) :
     pn \in {P1, P2}, d \in 0..(MaxPrevDay - 1), zk \in PrevZkTexts}

UniqueKeys(rws) ==
  \A i, j \in 1..Len(rws) :
    (rws[i].Personalnummer = rws[j].Personalnummer /\ rws[i].Datum = rws[j].Datum)
      => i = j

PrevRowLists ==
  {rws \in UNION {[1..n -> PrevRecs] : n \in 0..MaxPrevRows} : UniqueKeys(rws)}

InitPrev ==
  /\ csv \in PrevRowLists
  /\ rows = csv
  /\ nEdits = 0
  /\ last = NoCall
  /\ editor = NoEditor

PrevCall ==
  /\ last = NoCall
  /\ \E pn \in {P1, P2}, d \in 0..MaxPrevDay :
       last' = [op |-> "prev", pn |-> pn, d |-> d,
                result |-> _read_prev_cum_zk(rows, pn, d)]
  /\ UNCHANGED <<csv, rows, nEdits, editor>>

NextPrev == PrevCall

SpecPrev == InitPrev /\ [][NextPrev]_vars

\* Records of pn dated strictly before d.
Earlier(rws, pn, d) ==
  {i \in 1..Len(rws) : rws[i].Personalnummer = pn /\ rws[i].Datum < d}

\* The stored text is what the engine writes for m minutes (blank reads as 0).
HoldsBalance(text, m) ==
  \/ text = <<>> /\ m = 0
  \/ text /= <<>> /\ m \in PrevBalances /\ _fmt_signed(m) = text

\* C3: the previous balance of (pn, d) is the balance of pn's record with the
\* greatest date strictly before d -- never another employee's record or one
\* dated d or later -- and 0 when pn has no record strictly before d.
C3_PreviousBalance ==
  last.op = "prev" =>
    LET E == Earlier(rows, last.pn, last.d)
    IN IF E = {} THEN last.result = 0
       ELSE \E i \in E :
              /\ \A j \in E : rows[j].Datum <= rows[i].Datum
              /\ HoldsBalance(rows[i].Zeitkonto, last.result)

\* The latest earlier record comes first in the file, before another
\* employee's record of the same date and an older record of pn.
C3_Witness ==
  /\ last.op = "prev" /\ last.pn = P1 /\ last.d = 2 /\ last.result = 0 - 615
  /\ Len(rows) = 3
  /\ rows[1].Personalnummer = P1 /\ rows[1].Datum = 1
  /\ rows[2].Personalnummer = P2 /\ rows[2].Datum = 1 /\ rows[2].Zeitkonto = _fmt_signed(75)
  /\ rows[3].Personalnummer = P1 /\ rows[3].Datum = 0 /\ rows[3].Zeitkonto = _fmt_signed(75)

-----------------------------------------------------------------------------
(* AttendanceModel: status rule engine and cell edits                      *)

\* date.today(), used by _apply_status_automation when Datum is unparsable.
Today == 1

StatusNormNoLower(st) == Strip(st)

\* (row.get("Status") or "").strip().lower()
StatusNorm(st) == Lower(Strip(st))

DayCountersClearing(row, status) ==
  IF status = T("urlaub") THEN [row EXCEPT !.Urlaub = T("-1"), !.FvD = <<>>]
  ELSE IF status = T("fvd") THEN [row EXCEPT !.FvD = T("-1"), !.Urlaub = <<>>]
  ELSE [row EXCEPT !.Urlaub = <<>>, !.FvD = <<>>]

\* Lines 406-410 and 439-442: the day counters.
DayCounters(row, status) ==
  IF status = T("urlaub") THEN [row EXCEPT !.Urlaub = T("-1")]
  ELSE IF status = T("fvd") THEN [row EXCEPT !.FvD = T("-1")]
  ELSE row

\* "_net_work_minutes(...) or 0"
OrZero(net) == IF net.some THEN net.v ELSE 0

OverSigned(over) == IF over /= 0 THEN _fmt_signed(over) ELSE T("+0:00")

\* Lines 415-416 and 449-450.
OverText(over) == IF Max(0, over) /= 0 THEN _fmt_signed(Max(0, over)) ELSE T("+0:00")

\* Lines 412-418.
AutomationOvertime(row, s, req, net) ==
  IF s = T("mehrarbeit") THEN [row EXCEPT !.Mehrarbeit = OverText(OrZero(net) - req)]
  ELSE IF s \in {T("abbau mehrarbeit"), T("abbau_mehrarbeit")}
  THEN [row EXCEPT !.Mehrarbeit = _fmt_signed(0 - req)]
  ELSE row

AutomationAt(rws, r, s, d) ==
  [rws EXCEPT ![r] =
     AutomationOvertime(
       DayCounters(rws[r], s), s,
       _required_minutes_for(model_day_minutes, pn_to_az, Strip(rws[r].Personalnummer), d),
       _net_work_minutes(rws[r].Anfang, rws[r].Ende))]

_apply_status_automation(rws, r, status_val) ==
  AutomationAt(rws, r, StatusNorm(status_val),
               IF IsDate(rws[r].Datum) THEN rws[r].Datum ELSE Today)

rule_zeitausgleich_net(row, prev, req, net) ==
  [row EXCEPT !.Zeitkonto = _fmt_signed(prev + (OrZero(net) - req))]

\* Lines 445-446.
rule_zeitausgleich(row, prev, req, net) ==
  [row EXCEPT !.Zeitkonto = _fmt_signed(prev - req)]

rule_mehrarbeit_signed(row, prev, req, net) ==
  [row EXCEPT
     !.Mehrarbeit = OverSigned(OrZero(net) - req),
     !.Zeitkonto = _fmt_signed(prev + (OrZero(net) - req))]

\* Lines 447-451 ("or 0": an absent net counts as 0 minutes).
rule_mehrarbeit(row, prev, req, net) ==
  [row EXCEPT
     !.Mehrarbeit = OverText(OrZero(net) - req),
     !.Zeitkonto = _fmt_signed(prev + (OrZero(net) - req))]

rule_abbau_credit(row, prev, req, net) ==
  [row EXCEPT
     !.Mehrarbeit = _fmt_signed(req),
     !.Zeitkonto = IF net.some THEN _fmt_signed(prev + (net.v - req)) ELSE @]

\* Lines 452-456.
rule_abbau_mehrarbeit(row, prev, req, net) ==
  [row EXCEPT
     !.Mehrarbeit = _fmt_signed(0 - req),
     !.Zeitkonto = IF net.some THEN _fmt_signed(prev + (net.v - req)) ELSE @]

rule_default_zero_net(row, prev, req, net) ==
  [row EXCEPT !.Zeitkonto = _fmt_signed(prev + (OrZero(net) - req))]

\* Lines 457-460.
rule_default(row, prev, req, net) ==
  IF net.some THEN [row EXCEPT !.Zeitkonto = _fmt_signed(prev + (net.v - req))]
  ELSE row

\* Lines 444-460: the rule of the normalised status, given the previous
\* balance, the required minutes and the net minutes of the row.
ApplyRule(row, status, prev, req, net) ==
  IF status = T("zeitausgleich") THEN rule_zeitausgleich(row, prev, req, net)
  ELSE IF status = T("mehrarbeit") THEN rule_mehrarbeit(row, prev, req, net)
  ELSE IF status \in {T("abbau mehrarbeit"), T("abbau_mehrarbeit")}
  THEN rule_abbau_mehrarbeit(row, prev, req, net)
  ELSE rule_default(row, prev, req, net)

RecomputeAt(rws, r, pn, d, status) ==
  [rws EXCEPT ![r] =
     ApplyRule(DayCounters(rws[r], status), status,
               _read_prev_cum_zk(rws, pn, d),
               _required_minutes_for(model_day_minutes, pn_to_az, pn, d),
               _net_work_minutes(rws[r].Anfang, rws[r].Ende))]

_recompute_row(rws, r) ==
  IF ~IsDate(rws[r].Datum) THEN rws
  ELSE RecomputeAt(rws, r, Strip(rws[r].Personalnummer), rws[r].Datum,
                   StatusNorm(rws[r].Status))

EDITABLE_COLUMNS == {"Status", "Anfang", "Ende", "Zeitkonto", "Urlaub", "Mehrarbeit", "FvD"}

InClockRange(hh, mm) ==
  /\ hh.some /\ mm.some
  /\ 0 <= hh.v /\ hh.v <= 23 /\ 0 <= mm.v /\ mm.v <= 59

ValidParts(p) == p.ok /\ InClockRange(PyInt(p.h), PyInt(p.m))

_validate_time(s) == IF s = <<>> THEN TRUE ELSE ValidParts(SplitColon(s))

reload_as_read(file) == file

\* reload(): rows of the file, a blank Status replaced by "Anwesend".
reload(file) ==
  [i \in 1..Len(file) |->
     IF Strip(file[i].Status) = <<>> THEN [file[i] EXCEPT !.Status = T("Anwesend")]
     ELSE file[i]]

SetDataStored(rws, r, key, val) ==
  IF key = "Status"
  THEN _recompute_row(
         _apply_status_automation([rws EXCEPT ![r] = [@ EXCEPT ![key] = val]], r, val), r)
  ELSE IF key \in {"Anfang", "Ende"}
  THEN _recompute_row([rws EXCEPT ![r] = [@ EXCEPT ![key] = val]], r)
  ELSE [rws EXCEPT ![r] = [@ EXCEPT ![key] = val]]

SetDataStripped(rws, r, key, val) ==
  SetDataStored(rws, r, key, IF key = "Status" /\ val = <<>> THEN T("Anwesend") ELSE val)

\* The record list after setData(index(r, key), value) returned True.
SetDataRows(rws, r, key, value) == SetDataStripped(rws, r, key, Strip(value))

\* setData returns False (and changes nothing) on these edits.
SetDataRejects(key, value) ==
  \/ key \notin EDITABLE_COLUMNS
  \/ key \in {"Anfang", "Ende"} /\ ~_validate_time(Strip(value))

-----------------------------------------------------------------------------
(* Spec: the attendance dialog's model over Anwesenheit.csv                *)

MaxEdits == 2

Blank == <<>>

\* Anwesenheit.csv when the dialog opens: two days of P1 (the later one
\* first in the file) and one day of P2.  Clock cells and balances are what
\* earlier sessions and the free-text table editor left there.
InitLaterDay ==
  {Rec(P1, 1, Blank, c[1], c[2], Blank, Blank, Blank, Blank) :
     c \in {<<Blank, Blank>>, <<T("08:00"), T("18:00")>>, <<T("abc"), T("16:30")>>}}

InitEarlierDay ==
  {Rec(P1, 0, T("Anwesend"), Blank, Blank, zk, Blank, Blank, Blank) :
     zk \in {Blank, T("-0:30")}}

InitOtherPerson ==
  {Rec(P2, 0, T("Krank"), T("22:00"), T("02:00"), T("+2:00"), Blank, Blank, Blank)}

InitCsvs ==
  {<<a, b, c>> : a \in InitLaterDay, b \in InitEarlierDay, c \in InitOtherPerson}

Init ==
  /\ csv \in InitCsvs
  /\ rows = reload(csv)
  /\ nEdits = 0
  /\ last = [op |-> "reload"]
  /\ editor = NoEditor

StatusInputs ==
  {T("Anwesend"), T("Urlaub"), T("FvD"), T("Zeitausgleich"), T("Mehrarbeit"),
   T("Abbau Mehrarbeit"), T("abbau_mehrarbeit"), T("Krank"), Blank}

TimeInputs == {Blank, T("08:00"), T("18:00"), T("25:00")}

CellInputs(key) ==
  CASE key = "Status" -> StatusInputs
    [] key \in {"Anfang", "Ende"} -> TimeInputs
    [] key = "Zeitkonto" -> {T("+1:15"), T("abc")}
    [] key = "Urlaub" -> {T("-1")}
    [] key = "Mehrarbeit" -> {T("+1:00")}
    [] key = "FvD" -> {Blank}
    [] key = "Datum" -> {Blank}

\* Lines 464-510: what setData(index(r, key), value, EditRole) does to the
\* rows and the file.
setDataBody(r, key, value) ==
  /\ UNCHANGED editor
  /\ IF SetDataRejects(key, value)
     THEN /\ UNCHANGED <<rows, csv>>
          /\ last' = [op |-> "setData", r |-> r, key |-> key, value |-> value,
                      ok |-> FALSE, before |-> rows]
     ELSE /\ rows' = SetDataRows(rows, r, key, value)
          /\ csv' = rows'
          /\ last' = [op |-> "setData", r |-> r, key |-> key, value |-> value,
                      ok |-> TRUE, before |-> rows]

\* AttendanceModel.setData(index(r, key), value, EditRole)
setData(r, key, value) ==
  /\ nEdits < MaxEdits
  /\ nEdits' = nEdits + 1
  /\ setDataBody(r, key, value)

Next ==
  \E r \in 1..Len(rows), key \in EDITABLE_COLUMNS \cup {"Datum"} :
    \E value \in CellInputs(key) : setData(r, key, value)

Spec == Init /\ [][Next]_vars

-----------------------------------------------------------------------------
(* Claims about one recomputation (a status or clock edit of row last.r)   *)

Recomputed ==
  /\ last.op = "setData" /\ last.ok
  /\ last.key \in {"Status", "Anfang", "Ende"}

NewRow == rows[last.r]

OldRow == last.before[last.r]

NewStatus == StatusNorm(NewRow.Status)

NewNet == _net_work_minutes(NewRow.Anfang, NewRow.Ende)

NewReq ==
  _required_minutes_for(model_day_minutes, pn_to_az, NewRow.Personalnummer, NewRow.Datum)

NewPrev == _read_prev_cum_zk(last.before, NewRow.Personalnummer, NewRow.Datum)

AbbauLabels == {T("abbau mehrarbeit"), T("abbau_mehrarbeit")}

C7_AbsentNetKeepsBalance ==
  (Recomputed /\ ~NewNet.some /\ NewStatus /= T("zeitausgleich"))
    => NewRow.Zeitkonto = OldRow.Zeitkonto

\* C8: under overtime-accrual with computable net, balance = previous +
\* (net - required) and the overtime counter is max(0, net - required) in
\* signed H:MM, "+0:00" when zero, never negative.
C8_OvertimeAccrual ==
  (Recomputed /\ NewStatus = T("mehrarbeit") /\ NewNet.some)
    => /\ NewRow.Zeitkonto = _fmt_signed(NewPrev + (NewNet.v - NewReq))
       /\ Head(NewRow.Mehrarbeit) = "+"
       /\ ParseZk(NewRow.Mehrarbeit) =
            (IF NewNet.v > NewReq THEN NewNet.v - NewReq ELSE 0)
       /\ NewNet.v <= NewReq => NewRow.Mehrarbeit = T("+0:00")

\* Net below required: the counter is "+0:00" while the balance goes down.
C8_Witness ==
  /\ Recomputed /\ NewStatus = T("mehrarbeit") /\ NewNet.some
  /\ NewNet.v < NewReq
  /\ NewRow.Mehrarbeit = T("+0:00")
  /\ Head(NewRow.Zeitkonto) = "-"

\* C9: under time-off-in-lieu, balance = previous - required whatever the
\* clock cells hold (present, absent or malformed).
C9_TimeOffInLieu ==
  (Recomputed /\ NewStatus = T("zeitausgleich"))
    => NewRow.Zeitkonto = _fmt_signed(NewPrev - NewReq)

\* A malformed clock-in next to a valid clock-out, previous balance -0:30.
C9_Witness ==
  /\ Recomputed /\ NewStatus = T("zeitausgleich")
  /\ NewRow.Anfang = T("abc") /\ NewRow.Ende = T("16:30")
  /\ NewPrev = 0 - 30
  /\ NewRow.Zeitkonto = _fmt_signed(0 - 510)

\* C10: under overtime-compensation the overtime counter is -required,
\* formatted; balance = previous + (net - required) when net is computable
\* and is left unchanged otherwise.
C10_OvertimeCompensation ==
  (Recomputed /\ NewStatus \in AbbauLabels)
    => /\ NewRow.Mehrarbeit = _fmt_signed(0 - NewReq)
       /\ IF NewNet.some
          THEN NewRow.Zeitkonto = _fmt_signed(NewPrev + (NewNet.v - NewReq))
          ELSE NewRow.Zeitkonto = OldRow.Zeitkonto

C10_Witness ==
  /\ Recomputed /\ NewStatus = T("abbau_mehrarbeit")
  /\ ~NewNet.some
  /\ NewRow.Zeitkonto = T("+1:15")
  /\ NewRow.Mehrarbeit = T("-8:00")

-----------------------------------------------------------------------------
(* SpecLedger: status and clock edits on a fresh ledger                    *)

\* Materialized placeholder rows: blank status, clock cells and balance.
FreshCsv ==
  <<Rec(P1, 1, Blank, Blank, Blank, Blank, Blank, Blank, Blank),
    Rec(P1, 0, Blank, Blank, Blank, Blank, Blank, Blank, Blank),
    Rec(P2, 0, Blank, Blank, Blank, Blank, Blank, Blank, Blank)>>

InitLedger ==
  /\ csv = FreshCsv
  /\ rows = reload(csv)
  /\ nEdits = 0
  /\ last = [op |-> "reload"]
  /\ editor = NoEditor

NextLedger ==
  \E r \in 1..Len(rows), key \in {"Status", "Anfang", "Ende"} :
    \E value \in CellInputs(key) : setData(r, key, value)

SpecLedger == InitLedger /\ [][NextLedger]_vars

\* The day's contribution to the balance, where section 4.4 defines one:
\* -required under time-off-in-lieu, net - required when net is computable.
HasDelta(row) ==
  \/ StatusNorm(row.Status) = T("zeitausgleich")
  \/ _net_work_minutes(row.Anfang, row.Ende).some

Delta(row) ==
  LET req == _required_minutes_for(model_day_minutes, pn_to_az,
                                   row.Personalnummer, row.Datum)
  IN IF StatusNorm(row.Status) = T("zeitausgleich") THEN 0 - req
     ELSE _net_work_minutes(row.Anfang, row.Ende).v - req

\* C5: after any sequence of status and clock edits every record with a
\* computed balance satisfies the running fold: its balance is the balance
\* of the employee's latest earlier record plus its own day delta.
C5_RunningFold ==
  \A i \in 1..Len(rows) :
    (rows[i].Zeitkonto /= Blank /\ HasDelta(rows[i]))
      => rows[i].Zeitkonto =
           _fmt_signed(_read_prev_cum_zk(rows, rows[i].Personalnummer, rows[i].Datum)
                       + Delta(rows[i]))

\* Row indices in date order.
DateOrder(rws) ==
  CHOOSE o \in [1..Len(rws) -> 1..Len(rws)] :
    /\ \A i, j \in 1..Len(rws) : i /= j => o[i] /= o[j]
    /\ \A i, j \in 1..Len(rws) : i < j => rws[o[i]].Datum <= rws[o[j]].Datum

RECURSIVE ReplayFrom(_, _, _)
ReplayFrom(rws, order, k) ==
  IF k > Len(order) THEN rws
  ELSE ReplayFrom(_recompute_row(rws, order[k]), order, k + 1)

\* Recompute every record in date order, starting from blank balances.
Replay(rws) ==
  ReplayFrom([i \in 1..Len(rws) |-> [rws[i] EXCEPT !.Zeitkonto = Blank]],
             DateOrder(rws), 1)

\* C6: replaying recompute over the final field values from an empty ledger
\* reproduces the stored balances.
C6_ReplayReproduces ==
  \A i \in 1..Len(rows) : rows[i].Zeitkonto = Replay(rows)[i].Zeitkonto

-----------------------------------------------------------------------------
(* SpecRecompute: _recompute_row applied to stored records                 *)

\* Status cells as the combo box, the free-text table editor or a hand-edited
\* file leave them.
RecStatusTexts ==
  {T("Anwesend"), T("Urlaub"), T("URLAUB"), T(" urlaub "), T("FvD"), T("FVD"),
   T(" fvd "), T("Krank"), T("Mehrarbeit"), T("Zeitausgleich")}

\* Clock cells: blank, well-formed, and texts no time widget would write.
RecClockTexts ==
  {Blank, T("08:00"), T("16:30"), T("25:00"), T("08:75"), T("abc"), T("8")}

RecLaterDay ==
  {Rec(P1, 1, st, a, e, zk, Blank, Blank, Blank) :
     st \in RecStatusTexts, a \in RecClockTexts, e \in RecClockTexts,
     zk \in {Blank, T("-0:30")}}

RecEarlierDay == Rec(P1, 0, T("Anwesend"), Blank, Blank, T("+1:15"), Blank, Blank, Blank)

InitRecompute ==
  /\ csv \in {<<a, RecEarlierDay>> : a \in RecLaterDay}
  /\ rows = reload(csv)
  /\ nEdits = 0
  /\ last = [op |-> "reload"]
  /\ editor = NoEditor

\* One call self._recompute_row(r) on the loaded rows.
RecomputeCall ==
  /\ last = [op |-> "reload"]
  /\ \E r \in 1..Len(rows) :
       /\ rows' = _recompute_row(rows, r)
       /\ last' = [op |-> "recompute", r |-> r, before |-> rows,
                   net |-> _net_work_minutes(rows[r].Anfang, rows[r].Ende)]
  /\ UNCHANGED <<csv, nEdits, editor>>

NextRecompute == RecomputeCall

SpecRecompute == InitRecompute /\ [][NextRecompute]_vars

VacationLabels == {T("Urlaub"), T("URLAUB"), T(" urlaub ")}

SpecialDutyLabels == {T("FvD"), T("FVD"), T(" fvd ")}

\* C11: after recompute of a record whose status is vacation in any letter
\* case and with any surrounding blanks, its vacation counter is -1; likewise
\* the special-duty counter of a special-duty record.
C11_DayCounters ==
  last.op = "recompute" =>
    /\ last.before[last.r].Status \in VacationLabels => rows[last.r].Urlaub = T("-1")
    /\ last.before[last.r].Status \in SpecialDutyLabels => rows[last.r].FvD = T("-1")

\* An upper-case, padded vacation label and an upper-case special-duty label
\* each set their counter from blank.
C11_Witness ==
  /\ last.op = "recompute"
  /\ last.before[last.r].Urlaub = Blank /\ last.before[last.r].FvD = Blank
  /\ \/ last.before[last.r].Status = T(" urlaub ") /\ rows[last.r].Urlaub = T("-1")
              /\ rows[last.r].FvD = Blank
     \/ last.before[last.r].Status = T("FVD") /\ rows[last.r].FvD = T("-1")
              /\ rows[last.r].Urlaub = Blank

\* "HH:MM" with hour 0-23 and minute 0-59.
WellFormedClocks == {HHMM(t) : t \in 0..1439}

Malformed(s) == s /= Blank /\ s \notin WellFormedClocks

\* C19 as stated: a clock-in or clock-out that is not HH:MM with hour 0-23 and
\* minute 0-59 makes the net time none, and recompute under the presence
\* family then leaves the balance as stored.
C19_MalformedClockAbsent ==
  (/\ last.op = "recompute"
   /\ \/ Malformed(last.before[last.r].Anfang)
      \/ Malformed(last.before[last.r].Ende))
    => /\ last.net = None
       /\ last.before[last.r].Status \in {T("Anwesend"), T("Krank")}
            => rows[last.r].Zeitkonto = last.before[last.r].Zeitkonto

-----------------------------------------------------------------------------
(* SpecReq: _required_minutes_for applied to model tables and dates        *)

MaxReqDay == 14

P3 == T("03")

P4 == T("04")

\* arbeitszeitmodelle.csv as _load_model_day_minutes reads it: no model at
\* all, or two models with [Mo..Fr] minutes.
ReqModelTables ==
  {<<>>,
   ("Standard" :> <<480, 450, 420, 390, 360>>) @@ ("Teilzeit" :> <<240, 240, 0, 240, 180>>)}

\* Mitarbeiter.csv as _load_pn_maps reads it: P1 and P2 hold a model name, P3
\* has an empty model cell, P4 has no line.
ReqAssignments ==
  {(P1 :> "Standard") @@ (P2 :> "Gleitzeit") @@ (P3 :> ""),
   (P1 :> "Teilzeit") @@ (P2 :> "Standard") @@ (P3 :> "")}

InitReq ==
  /\ csv = <<>>
  /\ rows = <<>>
  /\ nEdits = 0
  /\ last = NoCall
  /\ editor = NoEditor

ReqCall ==
  /\ last = NoCall
  /\ \E mdm \in ReqModelTables, p2a \in ReqAssignments :
       \E pn \in {P1, P2, P3, P4}, d \in 0..(MaxReqDay - 1) :
         last' = [op |-> "req", mdm |-> mdm, p2a |-> p2a, pn |-> pn, d |-> d,
                  result |-> _required_minutes_for(mdm, p2a, pn, d)]
  /\ UNCHANGED <<csv, rows, nEdits, editor>>

NextReq == ReqCall

SpecReq == InitReq /\ [][NextReq]_vars

\* The employee has an assigned model that is present in the model table.
HasModel(mdm, p2a, pn) ==
  /\ pn \in DOMAIN p2a
  /\ p2a[pn] /= ""
  /\ p2a[pn] \in DOMAIN mdm

\* C12: 0 on Saturday and Sunday; on a weekday the assigned model's minutes
\* for that weekday when the model is in the table; otherwise the fallback
\* 540 for Monday-Thursday and 300 for Friday.
C12_RequiredMinutes ==
  last.op = "req" =>
    IF last.d % 7 \in {5, 6} THEN last.result = 0
    ELSE IF HasModel(last.mdm, last.p2a, last.pn)
    THEN last.result = last.mdm[last.p2a[last.pn]][(last.d % 7) + 1]
    ELSE last.result = (IF last.d % 7 = 4 THEN 300 ELSE 540)

\* A Friday of the second week for an employee whose model name is not in
\* the table: the fallback 300.
C12_Witness ==
  /\ last.op = "req"
  /\ last.pn = P2 /\ last.p2a[P2] = "Gleitzeit" /\ last.mdm /= <<>>
  /\ last.d = 11
  /\ last.result = 300

-----------------------------------------------------------------------------
(* Range materializer and purge (gui/dialogs/mitarbeiter.py, logic.py)      *)

\* Characters of the modelled cells in code-point order.
CodePoints ==
  <<" ", "+", "-">> \o DigitChars \o <<":">> \o UpperChars \o <<"_">> \o LowerChars

Ord(c) == CHOOSE i \in 1..Len(CodePoints) : CodePoints[i] = c

\* Python's a < b on str.
RECURSIVE StrLess(_, _)
StrLess(a, b) ==
  IF b = <<>> THEN FALSE
  ELSE IF a = <<>> THEN TRUE
  ELSE IF Head(a) = Head(b) THEN StrLess(Tail(a), Tail(b))
  ELSE Ord(Head(a)) < Ord(Head(b))

\* (Personalnummer, Datum) tuple order; ISO dates order as their day numbers.
KeyLess(r1, r2) ==
  \/ StrLess(r1.Personalnummer, r2.Personalnummer)
  \/ r1.Personalnummer = r2.Personalnummer /\ r1.Datum < r2.Datum

RECURSIVE InsertByKey(_, _)
InsertByKey(sorted, r) ==
  IF sorted = <<>> THEN <<r>>
  ELSE IF KeyLess(r, sorted[Len(sorted)])
  THEN Append(InsertByKey(SubSeq(sorted, 1, Len(sorted) - 1), r), sorted[Len(sorted)])
  ELSE Append(sorted, r)

\* list.sort(key=lambda r: (Personalnummer, Datum)) -- stable.
RECURSIVE SortByKey(_)
SortByKey(rws) ==
  IF rws = <<>> THEN <<>>
  ELSE InsertByKey(SortByKey(SubSeq(rws, 1, Len(rws) - 1)), rws[Len(rws)])

\* December 31 of the current year, as a day number.
YearEnd == 6

\* Line 201: the keys present, both cells stripped.
Have(rws) == {<<Strip(rws[i].Personalnummer), rws[i].Datum>> : i \in 1..Len(rws)}

\* Lines 209-213.
EnsureRow(pn, d) ==
  Rec(pn, d, IF Weekday(d) < 5 THEN T("Anwesend") ELSE T("Wochenende"),
      <<>>, <<>>, <<>>, <<>>, <<>>, <<>>)

RECURSIVE EnsureLoopNoCheck(_, _, _, _, _)
EnsureLoopNoCheck(rws, have, pn, d, end) ==
  IF d > end THEN rws
  ELSE EnsureLoopNoCheck(Append(rws, EnsureRow(pn, d)), have, pn, d + 1, end)

\* Lines 206-217.
RECURSIVE EnsureLoop(_, _, _, _, _)
EnsureLoop(rws, have, pn, d, end) ==
  IF d > end THEN rws
  ELSE IF <<pn, d>> \in have THEN EnsureLoop(rws, have, pn, d + 1, end)
  ELSE EnsureLoop(Append(rws, EnsureRow(pn, d)), have \cup {<<pn, d>>}, pn, d + 1, end)

ensure_span_no_check(file, pn, start, end) ==
  IF pn = <<>> THEN file ELSE EnsureLoopNoCheck(file, Have(file), pn, start, end)

\* The file after ensure_attendance_span_for_person(pn, start, end); the
\* return value is the number of rows it gained.
ensure_attendance_span_for_person(file, pn, start, end) ==
  IF pn = <<>> THEN file ELSE EnsureLoop(file, Have(file), pn, start, end)

\* Line 216: the keys present, cells as stored.
exists_set(rws) == {<<rws[i].Personalnummer, rws[i].Datum>> : i \in 1..Len(rws)}

\* Lines 219-236.
RECURSIVE GenerateLoop(_, _, _, _, _)
GenerateLoop(add_rows, exists, pn, d, year_end) ==
  IF d > year_end THEN add_rows
  ELSE IF <<pn, d>> \in exists THEN GenerateLoop(add_rows, exists, pn, d + 1, year_end)
  ELSE GenerateLoop(Append(add_rows, Rec(pn, d, <<>>, <<>>, <<>>, <<>>, <<>>, <<>>, <<>>)),
                    exists, pn, d + 1, year_end)

\* Lines 238-241.
GenerateWrite(existing, add_rows) ==
  IF add_rows = <<>> THEN existing ELSE SortByKey(existing \o add_rows)

generate_ignoring_existing(file, pn, today, year_end) ==
  GenerateWrite(file, GenerateLoop(<<>>, {}, pn, today, year_end))

\* The file after generate_attendance_for_person(pn) run on day today.
generate_attendance_for_person(file, pn, today, year_end) ==
  GenerateWrite(file, GenerateLoop(<<>>, exists_set(file), pn, today, year_end))

purge_first_only(file, pn) ==
  IF \E i \in 1..Len(file) : Strip(file[i].Personalnummer) = pn
  THEN LET k == CHOOSE i \in 1..Len(file) :
                  /\ Strip(file[i].Personalnummer) = pn
                  /\ \A j \in 1..(i - 1) : Strip(file[j].Personalnummer) /= pn
       IN SubSeq(file, 1, k - 1) \o SubSeq(file, k + 1, Len(file))
  ELSE file

\* The file after purge_person_from_attendance(pn); the return value is the
\* number of rows it lost.
purge_person_from_attendance(file, pn) ==
  IF pn = <<>> THEN file
  ELSE SelectSeq(file, LAMBDA r : Strip(r.Personalnummer) /= pn)

\* The file after remove_attendance_for_person(pn); the function returns None.
remove_attendance_for_person(file, pn) ==
  SelectSeq(file, LAMBDA r : r.Personalnummer /= pn)

\* Lines 43-47: index of the first row of (pn, today), 0 when there is none.
TodayIndex(file, pn, today) ==
  IF \E i \in 1..Len(file) : file[i].Personalnummer = pn /\ file[i].Datum = today
  THEN CHOOSE i \in 1..Len(file) :
         /\ file[i].Personalnummer = pn /\ file[i].Datum = today
         /\ \A j \in 1..(i - 1) : ~(file[j].Personalnummer = pn /\ file[j].Datum = today)
  ELSE 0

SetIfSupplied(row, key, val, overwrite) ==
  IF val.some THEN [row EXCEPT ![key] = val.v] ELSE row

\* Lines 59-71 for one of the two cells; val is an Optional[str].
SetIfFree(row, key, val, overwrite) ==
  IF val.some /\ (overwrite \/ Strip(row[key]) = <<>>)
  THEN [row EXCEPT ![key] = val.v]
  ELSE row

SetTimeAt(rws, k, anfang, ende, overwrite) ==
  [rws EXCEPT ![k] =
     SetIfFree(SetIfFree(@, "Anfang", anfang, overwrite), "Ende", ende, overwrite)]

\* Lines 50-54.
TodayRow(pn, today) ==
  Rec(pn, today, T("Anwesend"), <<>>, <<>>, <<>>, <<>>, <<>>, <<>>)

set_time_always_append(file, pn, today, anfang, ende, overwrite) ==
  SetTimeAt(Append(file, TodayRow(pn, today)), Len(file) + 1, anfang, ende, overwrite)

\* The file after _set_time_for_today(pn, anfang, ende, overwrite=...).
_set_time_for_today(file, pn, today, anfang, ende, overwrite) ==
  IF TodayIndex(file, pn, today) = 0
  THEN SetTimeAt(Append(file, TodayRow(pn, today)), Len(file) + 1, anfang, ende, overwrite)
  ELSE SetTimeAt(file, TodayIndex(file, pn, today), anfang, ende, overwrite)

-----------------------------------------------------------------------------
\* Lines 56-71 for one of the two cells: <<changed_fields, skipped_fields>>.
FieldCount(row, key, val, overwrite) ==
  IF ~val.some THEN <<0, 0>>
  ELSE IF overwrite \/ Strip(row[key]) = <<>> THEN <<1, 0>>
  ELSE <<0, 1>>

\* The pair returned by _set_time_for_today(pn, anfang, ende, overwrite=...):
\* the counts of both cells of today's record, the record of lines 50-54
\* when the file has none.
set_time_counts(file, pn, today, anfang, ende, overwrite) ==
  [n \in 1..2 |->
     FieldCount(IF TodayIndex(file, pn, today) = 0 THEN TodayRow(pn, today)
                ELSE file[TodayIndex(file, pn, today)],
                "Anfang", anfang, overwrite)[n]
     + FieldCount(IF TodayIndex(file, pn, today) = 0 THEN TodayRow(pn, today)
                  ELSE file[TodayIndex(file, pn, today)],
                  "Ende", ende, overwrite)[n]]

-----------------------------------------------------------------------------
(* SpecStore: the operations that write Anwesenheit.csv                    *)

\* Anwesenheit.csv sorted by (Personalnummer, Datum), one row per key.
InitStores ==
  {<<>>,
   <<Rec(P1, 4, T("Urlaub"), Blank, Blank, T("+1:15"), T("-1"), Blank, Blank),
     Rec(P2, 1, T("Anwesend"), T("08:00"), Blank, Blank, Blank, Blank, Blank)>>,
   <<Rec(P1, 1, T("Anwesend"), T("08:00"), T("16:30"), T("-0:30"), Blank, Blank, Blank),
     Rec(P1, 5, T("Krank"), Blank, Blank, Blank, Blank, Blank, Blank),
     Rec(P2, 6, T("Wochenende"), Blank, Blank, Blank, Blank, Blank, Blank)>>}

InitStore ==
  /\ csv \in InitStores
  /\ rows = reload(csv)
  /\ nEdits = 0
  /\ last = [op |-> "reload"]
  /\ editor = NoEditor

\* Spans asked of ensure_attendance_span_for_person: the default (today to
\* year end) and every pair of days of the year's last three, start > end
\* included.
Spans ==
  {<<Today, YearEnd>>} \cup ((YearEnd - 2)..YearEnd) \X ((YearEnd - 2)..YearEnd)

\* The call repeats the previous one (same function, same arguments).
Repeats(op, pn, span) ==
  /\ last.op = op
  /\ last.pn = pn
  /\ last.span = span

EnsureSpan(pn, span) ==
  /\ nEdits < MaxEdits
  /\ nEdits' = nEdits + 1
  /\ csv' = ensure_attendance_span_for_person(csv, pn, span[1], span[2])
  /\ last' = [op |-> "ensure", pn |-> pn, span |-> span, before |-> csv,
              ret |-> Some(Len(csv') - Len(csv)), rep |-> Repeats("ensure", pn, span)]
  /\ UNCHANGED <<rows, editor>>

Generate(pn) ==
  /\ nEdits < MaxEdits
  /\ nEdits' = nEdits + 1
  /\ csv' = generate_attendance_for_person(csv, pn, Today, YearEnd)
  /\ last' = [op |-> "generate", pn |-> pn, span |-> <<Today, YearEnd>>, before |-> csv,
              ret |-> None, rep |-> Repeats("generate", pn, <<Today, YearEnd>>)]
  /\ UNCHANGED <<rows, editor>>

Purge(pn) ==
  /\ nEdits < MaxEdits
  /\ nEdits' = nEdits + 1
  /\ csv' = purge_person_from_attendance(csv, pn)
  /\ last' = [op |-> "purge", pn |-> pn, span |-> <<>>, before |-> csv,
              ret |-> Some(Len(csv) - Len(csv')), rep |-> Repeats("purge", pn, <<>>)]
  /\ UNCHANGED <<rows, editor>>

Remove(pn) ==
  /\ nEdits < MaxEdits
  /\ nEdits' = nEdits + 1
  /\ csv' = remove_attendance_for_person(csv, pn)
  /\ last' = [op |-> "remove", pn |-> pn, span |-> <<>>, before |-> csv,
              ret |-> None, rep |-> Repeats("remove", pn, <<>>)]
  /\ UNCHANGED <<rows, editor>>

\* anfang and ende are each None or a time; the quick buttons pass one of
\* the two, overwrite=False (line 778).
SetTimeInputs ==
  {None, Some(T("06:00")), Some(T("08:00"))} \X {None, Some(T("15:00")), Some(T("16:30"))}

SetTimeForToday(pn, times) ==
  /\ nEdits < MaxEdits
  /\ nEdits' = nEdits + 1
  /\ csv' = _set_time_for_today(csv, pn, Today, times[1], times[2], FALSE)
  /\ last' = [op |-> "set_time", pn |-> pn, span |-> <<Today, Today>>, before |-> csv,
              ret |-> None, rep |-> FALSE, times |-> times,
              counts |-> set_time_counts(csv, pn, Today, times[1], times[2], FALSE)]
  /\ UNCHANGED <<rows, editor>>

\* AttendanceModel.reload(): the dialog re-reads the file.
Reload ==
  /\ nEdits < MaxEdits
  /\ nEdits' = nEdits + 1
  /\ rows' = reload(csv)
  /\ last' = [op |-> "reload"]
  /\ UNCHANGED <<csv, editor>>

StoreCellInputs(key) ==
  CASE key = "Status" -> {T("Urlaub")}
    [] key = "Anfang" -> {T("08:00")}
    [] key = "Datum" -> {T("abc")}

NextStore ==
  \/ \E pn \in {P1, P2}, span \in Spans : EnsureSpan(pn, span)
  \/ \E pn \in {P1, P2} : Generate(pn)
  \/ \E pn \in {P1, P2} : Purge(pn)
  \/ \E pn \in {P1, P2} : Remove(pn)
  \/ \E pn \in {P1, P2}, times \in SetTimeInputs : SetTimeForToday(pn, times)
  \/ Reload
  \/ \E r \in 1..Len(rows), key \in {"Status", "Anfang", "Datum"} :
       \E value \in StoreCellInputs(key) : setData(r, key, value)

SpecStore == InitStore /\ [][NextStore]_vars

\* Number of records of (pn, d).
KeyCount(rws, pn, d) ==
  Cardinality({i \in 1..Len(rws) : rws[i].Personalnummer = pn /\ rws[i].Datum = d})

\* Dates of the span for which pn has no record.
Missing(rws, pn, span) == {d \in span[1]..span[2] : KeyCount(rws, pn, d) = 0}

\* A record of (pn, d) with the default status of its weekday and blank
\* clock-in, clock-out and balance.
IsPlaceholder(row, pn, d) ==
  /\ row.Personalnummer = pn /\ row.Datum = d
  /\ row.Status = (IF d % 7 \in {5, 6} THEN T("Wochenende") ELSE T("Anwesend"))
  /\ row.Anfang = Blank /\ row.Ende = Blank /\ row.Zeitkonto = Blank

\* C13: ensureRange creates exactly one placeholder record for every date of
\* [from, to] that had none, leaves every pre-existing record unchanged and
\* returns the number of records created; with from > to it creates nothing
\* and returns 0.
C13_EnsureRange ==
  last.op = "ensure" =>
    /\ \A d \in Missing(last.before, last.pn, last.span) :
         /\ KeyCount(csv, last.pn, d) = 1
         /\ \E i \in 1..Len(csv) : IsPlaceholder(csv[i], last.pn, d)
    /\ SubSeq(csv, 1, Len(last.before)) = last.before
    /\ Len(csv) = Len(last.before) + Cardinality(Missing(last.before, last.pn, last.span))
    /\ last.ret = Some(Cardinality(Missing(last.before, last.pn, last.span)))
    /\ last.span[1] > last.span[2] => (csv = last.before /\ last.ret = Some(0))

\* Friday to Sunday for an employee whose Friday is already a vacation day:
\* two weekend records are created.
C13_Witness ==
  /\ last.op = "ensure" /\ last.pn = P1 /\ last.span = <<4, 6>>
  /\ \E i \in 1..Len(last.before) :
       /\ last.before[i].Personalnummer = P1 /\ last.before[i].Datum = 4
       /\ last.before[i].Status = T("Urlaub")
  /\ last.ret = Some(2)
  /\ csv[Len(csv)].Status = T("Wochenende")

\* C14: a second ensure or generate call with the same employee and span,
\* directly after the first, creates no record and leaves the file as the
\* first call left it.
C14_MaterializeIdempotent ==
  (last.op \in {"ensure", "generate"} /\ last.rep)
    => /\ csv = last.before
       /\ last.op = "ensure" => last.ret = Some(0)

\* generate ran twice; the first run had created blank-status records.
C14_Witness ==
  /\ last.op = "generate" /\ last.rep
  /\ csv = last.before
  /\ \E i \in 1..Len(csv) : csv[i].Personalnummer = last.pn /\ csv[i].Status = Blank

\* The records of every employee but pn, in file order.
Kept(rws, pn) == SelectSeq(rws, LAMBDA r : r.Personalnummer /= pn)

\* C15 as stated: both purge functions remove every record of the employee,
\* keep the others in order, return the number removed, and a second purge
\* removes nothing and returns 0.
C15_AsStated ==
  last.op \in {"purge", "remove"} =>
    /\ csv = Kept(last.before, last.pn)
    /\ last.ret = Some(Len(last.before) - Len(csv))
    /\ last.rep => (csv = last.before /\ last.ret = Some(0))

\* C15 amended: both purge functions remove every record of the employee and
\* keep the others in order, and a second purge removes nothing;
\* purge_person_from_attendance returns the number removed (0 the second
\* time), remove_attendance_for_person returns nothing.
C15_Purge ==
  last.op \in {"purge", "remove"} =>
    /\ csv = Kept(last.before, last.pn)
    /\ last.rep => csv = last.before
    /\ last.op = "purge" =>
         /\ last.ret = Some(Len(last.before) - Len(csv))
         /\ last.rep => last.ret = Some(0)
    /\ last.op = "remove" => last.ret = None

\* Two records of the employee are purged, another employee's record stays.
C15_Witness ==
  /\ last.op = "purge" /\ last.ret = Some(2)
  /\ csv /= <<>>
  /\ \A i \in 1..Len(csv) : csv[i].Personalnummer /= last.pn

SortedStore(rws) == \A i, j \in 1..Len(rws) : i < j => ~KeyLess(rws[j], rws[i])

\* C16 as stated: a materialize or purge call on a file sorted by (employee
\* id, date) leaves it sorted.
C16_StaysSorted ==
  (last.op \in {"ensure", "generate", "purge", "remove"} /\ SortedStore(last.before))
    => SortedStore(csv)

-----------------------------------------------------------------------------
(* SpecEditor: the table editor of Anwesenheit.csv (main.py)               *)
(* rows is AttendanceTableModel.rows; editor holds its dirty flag and the  *)
(* text of the PN filter field.                                            *)

MaxEditorSteps == 3

\* Python's sub in s on str.
Contains(s, sub) ==
  \E i \in 0..(Len(s) - Len(sub)) : SubSeq(s, i + 1, i + Len(sub)) = sub

\* AttendanceTableModel.load(): the rows of the file sorted by key.
load(file) == SortByKey(file)

\* AttendanceEditor.apply_filter(): the model rows afterwards.
apply_filter(file, rws, text) ==
  IF Strip(text) = <<>> THEN rws
  ELSE SelectSeq(file, LAMBDA r : Contains(r.Personalnummer, Strip(text)))

InitEditor ==
  /\ csv \in InitStores \ {<<>>}
  /\ rows = load(csv)
  /\ nEdits = 0
  /\ last = [op |-> "load", before |-> csv]
  /\ editor = NoEditor

FilterTexts == {Blank, T("01"), T("02"), T("8")}

\* edFilterPN.textChanged -> apply_filter
textChanged(text) ==
  /\ nEdits < MaxEditorSteps
  /\ nEdits' = nEdits + 1
  /\ editor' = [editor EXCEPT !.filter = text]
  /\ rows' = apply_filter(csv, rows, text)
  /\ last' = [op |-> "filter", before |-> csv]
  /\ UNCHANGED csv

\* AttendanceTableModel.setData: any cell takes any text.
editCell(r, key, value) ==
  /\ nEdits < MaxEditorSteps
  /\ nEdits' = nEdits + 1
  /\ rows' = [rows EXCEPT ![r] = [@ EXCEPT ![key] = value]]
  /\ editor' = [editor EXCEPT !.dirty = TRUE]
  /\ last' = [op |-> "edit", before |-> csv]
  /\ UNCHANGED csv

\* AttendanceEditor.on_save -> AttendanceTableModel.save() when dirty
on_save ==
  /\ nEdits < MaxEditorSteps
  /\ nEdits' = nEdits + 1
  /\ IF editor.dirty
     THEN /\ csv' = rows
          /\ editor' = [editor EXCEPT !.dirty = FALSE]
     ELSE UNCHANGED <<csv, editor>>
  /\ last' = [op |-> "save", before |-> csv]
  /\ UNCHANGED rows

\* AttendanceEditor.on_reload: load(), then apply_filter()
on_reload ==
  /\ nEdits < MaxEditorSteps
  /\ nEdits' = nEdits + 1
  /\ rows' = apply_filter(csv, load(csv), editor.filter)
  /\ editor' = [editor EXCEPT !.dirty = FALSE]
  /\ last' = [op |-> "load", before |-> csv]
  /\ UNCHANGED csv

EditorCellInputs(key) ==
  CASE key = "Status" -> {T("Krank")}
    [] key = "Anfang" -> {T("25:00")}
    [] key = "Zeitkonto" -> {T("-+1:15")}

NextEditor ==
  \/ \E text \in FilterTexts : textChanged(text)
  \/ \E r \in 1..Len(rows), key \in {"Status", "Anfang", "Zeitkonto"} :
       \E value \in EditorCellInputs(key) : editCell(r, key, value)
  \/ on_save
  \/ on_reload

SpecEditor == InitEditor /\ [][NextEditor]_vars

\* The (employee id, date) pairs that have a record.
Keys(rws) == {<<rws[i].Personalnummer, rws[i].Datum>> : i \in 1..Len(rws)}

\* C18 as stated: filtering by employee number, editing cells and saving in
\* the attendance editor never removes a persisted (employee id, date).
C18_NeverDeleted ==
  last.op \in {"filter", "edit", "save", "load"}
    => Keys(last.before) \subseteq Keys(csv)

-----------------------------------------------------------------------------
(* SpecBalance: _read_prev_cum_zk applied to stored balance texts          *)

\* The Zeitkonto cell is free text (EDITABLE_COLUMNS, table editor): texts
\* built from a sign part, an hours part, a separator and a minutes part.
ZkSigns == {<<>>, <<"+">>, <<"-">>, <<"-", "+">>, <<"+", "-">>}

ZkHours == {<<>>, <<"0">>, <<"1">>, <<"1", "2">>, <<"a">>}

ZkSeps == {<<":">>, <<>>, <<".">>}

ZkMinutes ==
  {<<>>, <<"5">>, <<"0", "5">>, <<"3", "0">>, <<"7", "5">>, <<"-", "5">>, <<"x", "y">>}

InitBalance ==
  /\ \E sign \in ZkSigns, h \in ZkHours, sep \in ZkSeps, m \in ZkMinutes :
       /\ last = [op |-> "stored", sign |-> sign, h |-> h, sep |-> sep, m |-> m, result |-> 0]
       /\ csv = <<Rec(P1, 0, T("Anwesend"), <<>>, <<>>, sign \o h \o sep \o m, <<>>, <<>>, <<>>)>>
  /\ rows = reload(csv)
  /\ nEdits = 0
  /\ editor = NoEditor

\* The previous balance of P1 on the day after the stored record.
BalanceCall ==
  /\ last.op = "stored"
  /\ last' = [last EXCEPT !.op = "prev", !.result = _read_prev_cum_zk(rows, P1, 1)]
  /\ UNCHANGED <<csv, rows, nEdits, editor>>

NextBalance == BalanceCall

SpecBalance == InitBalance /\ [][NextBalance]_vars

AllDigits(s) == s /= <<>> /\ \A i \in 1..Len(s) : IsDigit(s[i])

\* An optional sign, hours, a colon and minutes.
BalanceShaped(sign, h, sep, m) ==
  /\ Len(sign) <= 1
  /\ AllDigits(h)
  /\ sep = <<":">>
  /\ AllDigits(m)

\* C20 as stated: a stored balance of the shape sign, hours, colon, minutes
\* is read as signed minutes (positive without sign); every other stored
\* text makes the previous balance 0.
C20_BalanceParsing ==
  last.op = "prev" =>
    IF BalanceShaped(last.sign, last.h, last.sep, last.m)
    THEN last.result =
           (IF last.sign = <<"-">> THEN 0 - 1 ELSE 1)
             * (DigitsVal(last.h) * 60 + DigitsVal(last.m))
    ELSE last.result = 0

-----------------------------------------------------------------------------
(* Claims about which cells setData accepts                                *)

EngineOwned == {"Zeitkonto", "Urlaub", "Mehrarbeit", "FvD"}

\* C21 as stated: an edit of status, clock-in or clock-out that is accepted
\* leaves the row recomputed; an edit of the balance, overtime, vacation or
\* special-duty cell is not accepted and changes nothing.
C21_EngineOwnedCells ==
  last.op = "setData" =>
    /\ (last.key \in {"Status", "Anfang", "Ende"} /\ last.ok)
         => _recompute_row(rows, last.r) = rows
    /\ last.key \in EngineOwned => (~last.ok /\ rows = last.before)

NonBlankStatus(rws) == \A i \in 1..Len(rws) : Strip(rws[i].Status) /= <<>>

\* C22: a blank status is never kept: every record in memory has a
\* non-blank status after reload and after every edit, setData with an empty
\* status value stores "Anwesend", and the file written by setData has no
\* record with a blank status.
C22_BlankStatusIsPresence ==
  /\ NonBlankStatus(rows)
  /\ (last.op = "setData" /\ last.ok) => NonBlankStatus(csv)
  /\ (last.op = "setData" /\ last.key = "Status" /\ Strip(last.value) = <<>>)
       => (last.ok /\ rows[last.r].Status = T("Anwesend"))

\* The first edit empties the status of a record whose status was blank in
\* the file the dialog loaded.
C22_Witness ==
  /\ last.op = "setData" /\ last.key = "Status" /\ last.value = Blank
  /\ nEdits = 1 /\ last.r = 1
  /\ rows[1].Status = T("Anwesend") /\ csv[1].Status = T("Anwesend")

-----------------------------------------------------------------------------
(* Claims about the rules configured in status.py                          *)

\* READONLY_DEFAULTS of status.py: the standard statuses bound to the "null"
\* rule ("Keine Zeit wird abgezogen oder gutgeschrieben"), normalised.
NullRuleLabels ==
  {T("krank"), T("kindkrank"), T("home office"), T("dienstreise"),
   T("wochenende"), T("feiertag"), T("nicht mehr in kompanie")}

\* C26 as stated: recomputing a record whose status has the null rule
\* credits and deducts no time, so its balance is the one it had before,
\* whether or not clock-in and clock-out are present.
C26_NullRuleKeepsBalance ==
  (Recomputed /\ NewStatus \in NullRuleLabels)
    => NewRow.Zeitkonto = OldRow.Zeitkonto

-----------------------------------------------------------------------------
(* Claims about the side counters                                          *)

\* C30: a recomputation never clears a side counter: the vacation counter
\* keeps its previous value unless the new status is the vacation status,
\* the special-duty counter unless it is the special-duty status, and the
\* overtime counter unless it is overtime accrual or overtime compensation.
C30_CountersNeverCleared ==
  Recomputed =>
    /\ NewStatus /= T("urlaub") => NewRow.Urlaub = OldRow.Urlaub
    /\ NewStatus /= T("fvd") => NewRow.FvD = OldRow.FvD
    /\ NewStatus \notin {T("mehrarbeit")} \cup AbbauLabels
         => NewRow.Mehrarbeit = OldRow.Mehrarbeit

\* A record whose vacation counter was set by the vacation status is moved
\* to another status and keeps the counter.
C30_Witness ==
  /\ Recomputed /\ last.key = "Status"
  /\ StatusNorm(OldRow.Status) = T("urlaub") /\ OldRow.Urlaub = T("-1")
  /\ NewStatus = T("krank") /\ NewRow.Urlaub = T("-1")

-----------------------------------------------------------------------------
(* Claims about the status of materialised records                         *)

DefaultStatus(d) == IF Weekday(d) \in {5, 6} THEN T("Wochenende") ELSE T("Anwesend")

\* C23 as stated: every record created by generate_attendance_for_person
\* carries the default status of its weekday: "Anwesend" on Monday to
\* Friday, "Wochenende" on Saturday and Sunday.
C23_GeneratedDefaultStatus ==
  last.op = "generate" =>
    \A i \in 1..Len(csv) :
      KeyCount(last.before, csv[i].Personalnummer, csv[i].Datum) = 0
        => csv[i].Status = DefaultStatus(csv[i].Datum)

-----------------------------------------------------------------------------
(* Claims about blank balances on the latest earlier record                *)

\* i is the record of pn with the greatest date strictly before d.
LatestEarlier(rws, pn, d, i) ==
  /\ i \in Earlier(rws, pn, d)
  /\ \A j \in Earlier(rws, pn, d) : rws[j].Datum <= rws[i].Datum

\* C28: when the latest record of pn strictly before d has a blank balance,
\* the previous balance is 0, whatever balances older records of pn hold.
C28_BlankLatestReadsZero ==
  last.op = "prev" =>
    \A i \in 1..Len(rows) :
      (LatestEarlier(rows, last.pn, last.d, i) /\ Strip(rows[i].Zeitkonto) = <<>>)
        => last.result = 0

\* The latest earlier record is blank and an older record of the same
\* employee holds +1:15.
C28_Witness ==
  /\ last.op = "prev" /\ last.pn = P1 /\ last.d = 2 /\ last.result = 0
  /\ \E i, j \in 1..Len(rows) :
       /\ LatestEarlier(rows, P1, 2, i) /\ rows[i].Zeitkonto = <<>>
       /\ rows[j].Personalnummer = P1 /\ rows[j].Datum < rows[i].Datum
       /\ rows[j].Zeitkonto = _fmt_signed(75)

-----------------------------------------------------------------------------
(* SpecOvernight: gross and net minutes of clock texts, the texts a record *)
(* can hold included that are no time of day.                              *)

\* _net_work_minutes on the texts of the clock cells: a clock-in on every
\* NetStartStep-th minute, at 22:00 or the text "25:00", a clock-out on
\* every minute; gross is the local of lines 175-177.
GrossCall ==
  /\ last = NoCall
  /\ \E anf \in {ClockText(t) : t \in NetStarts} \cup {T("22:00"), T("25:00")},
        end \in {ClockText(t) : t \in NetEnds} :
       last' = [op |-> "gross", anf |-> anf, end |-> end,
                a |-> _parse_hhmm(anf), b |-> _parse_hhmm(end),
                gross |-> IF _parse_hhmm(anf).some /\ _parse_hhmm(end).some
                          THEN Some(GrossOfParsed(_parse_hhmm(anf).v, _parse_hhmm(end).v))
                          ELSE None,
                result |-> _net_work_minutes(anf, end)]
  /\ UNCHANGED <<csv, rows, nEdits, editor>>

SpecOvernight == InitNet /\ [][GrossCall]_vars

\* C24 as stated: whenever clock-out is earlier than clock-in the gross
\* duration is (clock-out + 1440) - clock-in; 22:00 to 02:00 gives gross 240
\* and net 240; the gross duration is always in 0..1439.
C24_OvernightGross ==
  (last.op = "gross" /\ last.gross.some) =>
    /\ last.b.v < last.a.v => last.gross.v = (last.b.v + 1440) - last.a.v
    /\ (last.anf = T("22:00") /\ last.end = T("02:00"))
         => (last.gross.v = 240 /\ last.result = Some(240))
    /\ last.gross.v \in 0..1439

-----------------------------------------------------------------------------
(* SpecTrace: cell edits on the first two days of one employee             *)

MaxTraceEdits == 4

\* Monday and Tuesday of employee 01 (working-time model "Standard", 480
\* required minutes a day) and no other record.  The Tuesday record is as
\* generate_attendance_for_person wrote it or as setData(Status,
\* "Mehrarbeit") left it.
InitTrace ==
  /\ \E tue \in {Rec(P1, 1, Blank, Blank, Blank, Blank, Blank, Blank, Blank),
                  Rec(P1, 1, T("Mehrarbeit"), Blank, Blank, T("-8:00"), Blank, T("+0:00"),
                      Blank)} :
       csv = <<Rec(P1, 0, Blank, Blank, Blank, Blank, Blank, Blank, Blank), tue>>
  /\ rows = reload(csv)
  /\ nEdits = 0
  /\ last = [op |-> "reload"]
  /\ editor = NoEditor

\* AttendanceModel.setData on a status or clock cell of either record.
NextTrace ==
  /\ nEdits < MaxTraceEdits
  /\ nEdits' = nEdits + 1
  /\ \/ \E r \in 1..Len(rows), value \in {T("Anwesend"), T("Mehrarbeit")} :
          setDataBody(r, "Status", value)
     \/ \E r \in 1..Len(rows) : setDataBody(r, "Anfang", T("08:00"))
     \/ \E r \in 1..Len(rows), value \in {T("16:30"), T("18:00")} :
          setDataBody(r, "Ende", value)

SpecTrace == InitTrace /\ [][NextTrace]_vars

\* The Monday record as the first half of the trace leaves it.
MondayDone(row) ==
  /\ StatusNorm(row.Status) = T("anwesend")
  /\ row.Anfang = T("08:00") /\ row.Ende = T("16:30")
  /\ row.Zeitkonto = T("+0:00")

\* C25: with no prior record and 480 required minutes, the edit that
\* completes Monday (presence) to 08:00-16:30 yields net 480 and balance
\* "+0:00"; after it, the edit that completes Tuesday (overtime accrual) to
\* 08:00-18:00 yields net 555, overtime counter "+1:15" and balance "+1:15".
C25_ExampleTrace ==
  Recomputed =>
    /\ (/\ last.r = 1 /\ NewStatus = T("anwesend")
        /\ NewRow.Anfang = T("08:00") /\ NewRow.Ende = T("16:30"))
         => (NewReq = 480 /\ NewNet = Some(480) /\ NewRow.Zeitkonto = T("+0:00"))
    /\ (/\ last.r = 2 /\ MondayDone(rows[1]) /\ NewStatus = T("mehrarbeit")
        /\ NewRow.Anfang = T("08:00") /\ NewRow.Ende = T("18:00"))
         => /\ NewReq = 480 /\ NewNet = Some(555)
            /\ NewRow.Mehrarbeit = T("+1:15")
            /\ NewRow.Zeitkonto = T("+1:15")

\* Both halves of the trace have run, the last edit being Tuesday's
\* clock-out.
C25_Witness ==
  /\ Recomputed /\ last.r = 2 /\ last.key = "Ende" /\ nEdits = 4
  /\ MondayDone(rows[1])
  /\ OldRow.Status = T("Mehrarbeit") /\ OldRow.Anfang = T("08:00") /\ OldRow.Ende = Blank
  /\ NewRow.Ende = T("18:00")
  /\ NewRow.Mehrarbeit = T("+1:15") /\ NewRow.Zeitkonto = T("+1:15")

-----------------------------------------------------------------------------
(* Claims about the quick clock-in / clock-out buttons                     *)

Supplied(times) ==
  (IF times[1].some THEN 1 ELSE 0) + (IF times[2].some THEN 1 ELSE 0)

\* Cell key of today's record k is kept when it was filled, and takes the
\* supplied time when it was blank.
FilledOnlyIfBlank(before, after, k, key, val) ==
  /\ Strip(before[k][key]) /= <<>> => after[k][key] = before[k][key]
  /\ (Strip(before[k][key]) = <<>> /\ val.some) => after[k][key] = val.v

\* C27: _set_time_for_today with overwrite=False never changes a non-blank
\* clock-in or clock-out of today's record (so the first value recorded in a
\* field stays the stored one), fills a blank field with the supplied time,
\* and returns (changed, skipped) with changed + skipped equal to the number
\* of supplied times.
C27_QuickFillsBlankOnly ==
  last.op = "set_time" =>
    /\ last.counts[1] + last.counts[2] = Supplied(last.times)
    /\ TodayIndex(last.before, last.pn, Today) /= 0 =>
         /\ TodayIndex(csv, last.pn, Today) = TodayIndex(last.before, last.pn, Today)
         /\ FilledOnlyIfBlank(last.before, csv, TodayIndex(last.before, last.pn, Today),
                              "Anfang", last.times[1])
         /\ FilledOnlyIfBlank(last.before, csv, TodayIndex(last.before, last.pn, Today),
                              "Ende", last.times[2])

\* A call with another clock-in on a record that already holds 08:00: the
\* 08:00 recorded first stays, the blank clock-out is filled; one field
\* changed, one skipped.
C27_Witness ==
  /\ last.op = "set_time" /\ last.times = <<Some(T("06:00")), Some(T("15:00"))>>
  /\ TodayIndex(last.before, last.pn, Today) /= 0
  /\ last.before[TodayIndex(last.before, last.pn, Today)].Anfang = T("08:00")
  /\ last.before[TodayIndex(last.before, last.pn, Today)].Ende = Blank
  /\ csv[TodayIndex(csv, last.pn, Today)].Anfang = T("08:00")
  /\ csv[TodayIndex(csv, last.pn, Today)].Ende = T("15:00")
  /\ last.counts = <<1, 1>>

-----------------------------------------------------------------------------
(* AttendanceDialog._apply_time: the quick clock-in / clock-out buttons    *)

\* Lines 776-778: for every selected pn, today's record is ensured and the
\* time is set where the cell is blank.
RECURSIVE SetTimesLoop(_, _, _, _, _)
SetTimesLoop(file, pns, k, anfang, ende) ==
  IF k > Len(pns) THEN file
  ELSE SetTimesLoop(
         _set_time_for_today(generate_attendance_for_person(file, pns[k], Today, YearEnd),
                             pns[k], Today, anfang, ende, FALSE),
         pns, k + 1, anfang, ende)

\* Lines 789-802: index of the first record of pn dated today (0: none).
QuickIndex(rws, pn, today) ==
  IF \E i \in 1..Len(rws) : Strip(rws[i].Personalnummer) = pn /\ rws[i].Datum = today
  THEN CHOOSE i \in 1..Len(rws) :
         /\ Strip(rws[i].Personalnummer) = pn /\ rws[i].Datum = today
         /\ \A j \in 1..(i - 1) :
              ~(Strip(rws[j].Personalnummer) = pn /\ rws[j].Datum = today)
  ELSE 0

\* Lines 828-837: the counters, set in memory whether or not the balance
\* changed.
QuickCounters(row, status, req, net) ==
  IF status = T("urlaub") THEN [row EXCEPT !.Urlaub = T("-1")]
  ELSE IF status = T("fvd") THEN [row EXCEPT !.FvD = T("-1")]
  ELSE IF status = T("mehrarbeit")
  THEN [row EXCEPT !.Mehrarbeit =
          IF Max(0, OrZero(net) - req) /= 0 THEN _fmt_signed(Max(0, OrZero(net) - req))
          ELSE T("+0:00")]
  ELSE IF status \in {T("abbau mehrarbeit"), T("abbau_mehrarbeit")}
  THEN [row EXCEPT !.Mehrarbeit = _fmt_signed(0 - req)]
  ELSE row

\* Lines 803-837 for one record: the record in memory and whether its
\* balance was written ("if new_zk != old_zk", old_zk the stripped cell).
QuickRow(row, status, req, net, new_zk) ==
  [row |-> QuickCounters(
             IF new_zk.some /\ new_zk.v /= Strip(row.Zeitkonto)
             THEN [row EXCEPT !.Zeitkonto = new_zk.v] ELSE row,
             status, req, net),
   changed |-> new_zk.some /\ new_zk.v /= Strip(row.Zeitkonto)]

\* Lines 803-825: new_zk is the balance the handler wants to write (None:
\* no write).
QuickRowAt(rws, idx, pn, status, req, net) ==
  QuickRow(rws[idx], status, req, net,
           IF status = T("zeitausgleich")
           THEN Some(_fmt_signed(_read_prev_cum_zk(rws, pn, Today) - req))
           ELSE IF net.some
           THEN Some(_fmt_signed(_read_prev_cum_zk(rws, pn, Today) + (net.v - req)))
           ELSE None)

\* Lines 785-837: the loop over the selected pns; acc holds the rows in
\* memory and changed_any.
RECURSIVE QuickLoop(_, _, _)
QuickLoop(acc, pns, k) ==
  IF k > Len(pns) THEN acc
  ELSE IF QuickIndex(acc.rows, pns[k], Today) = 0 THEN QuickLoop(acc, pns, k + 1)
  ELSE QuickLoop(
         [rows |-> [acc.rows EXCEPT ![QuickIndex(acc.rows, pns[k], Today)] =
                      QuickRowAt(acc.rows, QuickIndex(acc.rows, pns[k], Today), pns[k],
                                 StatusNorm(@.Status),
                                 _required_minutes_for(model_day_minutes, pn_to_az, pns[k], Today),
                                 _net_work_minutes(@.Anfang, @.Ende)).row],
          changed |-> \/ acc.changed
                      \/ QuickRowAt(acc.rows, QuickIndex(acc.rows, pns[k], Today), pns[k],
                                    StatusNorm(acc.rows[QuickIndex(acc.rows, pns[k], Today)].Status),
                                    _required_minutes_for(model_day_minutes, pn_to_az, pns[k], Today),
                                    _net_work_minutes(
                                      acc.rows[QuickIndex(acc.rows, pns[k], Today)].Anfang,
                                      acc.rows[QuickIndex(acc.rows, pns[k], Today)].Ende)).changed],
         pns, k + 1)

-----------------------------------------------------------------------------
(* SpecQuick: the quick buttons pressed on a selection of employees        *)

\* Anwesenheit.csv when the dialog opens: empty, or yesterday's and today's
\* record of employee 01, today's as the attendance editor of main.py (free
\* text in every cell) or an earlier session left it.
InitQuick ==
  /\ csv \in {<<>>} \cup
       {<<Rec(P1, 0, T("Anwesend"), T("08:00"), T("18:00"), T("+1:15"), Blank, Blank, Blank),
          Rec(P1, Today, st, Blank, e, Blank, Blank, Blank, Blank)>> :
          st \in {Blank, T("Urlaub"), T("Mehrarbeit"), T("Zeitausgleich"),
                  T("Abbau Mehrarbeit")},
          e \in {Blank, T("16:30")}}
  /\ rows = reload(csv)
  /\ nEdits = 0
  /\ last = [op |-> "reload"]
  /\ editor = NoEditor

\* AttendanceDialog._apply_time(anfang=..., ende=...) with pns selected:
\* set the times (776-778), reload (781), update the rows in memory
\* (785-837), write them if a balance changed (839-841), reload (844).
_apply_time(pns, times) ==
  /\ nEdits < MaxEdits
  /\ nEdits' = nEdits + 1
  /\ csv' =
       IF QuickLoop([rows |-> reload(SetTimesLoop(csv, pns, 1, times[1], times[2])),
                     changed |-> FALSE], pns, 1).changed
       THEN QuickLoop([rows |-> reload(SetTimesLoop(csv, pns, 1, times[1], times[2])),
                       changed |-> FALSE], pns, 1).rows
       ELSE SetTimesLoop(csv, pns, 1, times[1], times[2])
  /\ rows' = reload(csv')
  /\ last' = [op |-> "apply_time", pns |-> pns, times |-> times, before |-> csv,
              loaded |-> reload(SetTimesLoop(csv, pns, 1, times[1], times[2]))]
  /\ UNCHANGED editor

\* A Kommen or a Gehen button (KOMMEN_TIMES, GEHEN_TIMES) pressed with one
\* or both employees selected; an empty selection returns at once.
NextQuick ==
  \/ \E pns \in {<<P1>>, <<P2>>, <<P1, P2>>} : _apply_time(pns, <<Some(T("06:00")), None>>)
  \/ \E pns \in {<<P1>>, <<P2>>, <<P1, P2>>} : _apply_time(pns, <<None, Some(T("15:00"))>>)

SpecQuick == InitQuick /\ [][NextQuick]_vars

\* The engine-owned cells of two records agree.
SameEngineCells(a, b) ==
  /\ a.Zeitkonto = b.Zeitkonto /\ a.Mehrarbeit = b.Mehrarbeit
  /\ a.Urlaub = b.Urlaub /\ a.FvD = b.FvD

\* C29 as stated: for every selected employee the balance, overtime,
\* vacation and special-duty value the quick-button handler leaves in the
\* file are those _recompute_row gives for the same record, required
\* minutes and previous balance, for every status, with a clock time absent
\* and with an unchanged balance too.
C29_QuickEqualsRecompute ==
  last.op = "apply_time" =>
    \A k \in 1..Len(last.pns) :
      QuickIndex(last.loaded, last.pns[k], Today) /= 0 =>
        SameEngineCells(
          csv[QuickIndex(last.loaded, last.pns[k], Today)],
          _recompute_row(last.loaded, QuickIndex(last.loaded, last.pns[k], Today))
            [QuickIndex(last.loaded, last.pns[k], Today)])

====
